---------------------------- MODULE Spec2Model ----------------------------
(***************************************************************************)
(* A model of the mood endpoint of moodmatch-api (src/api/mood.js): the    *)
(* pure helpers (cosineSimilarity, finalizeResults and its shuffle) as     *)
(* operators, and the request handler as a state machine whose steps are   *)
(* the handler's suspension points.                                        *)
(***************************************************************************)
EXTENDS Integers, Sequences, FiniteSets, TLC

VARIABLES
    fin_input,   \* the list handed to finalizeResults, as it was before the call
    fin_items,   \* the same array object, as the caller sees it (sorted in place)
    fin_ret,     \* what finalizeResults returned
    fin_pc,      \* "ready" | "returned"
    fin_order,   \* measure: how the input's positions rank by score
    ov_ref,      \* the reference terms handed to keywordOverlap / genreOverlap
    ov_tags,     \* the candidate's tags
    ov_ret,      \* what the two overlap functions returned
    ov_pc,       \* "ready" | "returned"
    hs_items,    \* the candidate list handed to hybridScore
    hs_mood,     \* the mood embedding handed to it
    hs_ref,      \* the reference metadata whose keywords and genres it is handed
    hs_embed,    \* per call, what the batch embedding call inside it does
    hs_ret,      \* what the calls made so far returned
    cos_a,       \* first argument of cosineSimilarity
    cos_b,       \* second argument of cosineSimilarity
    cos_ret,     \* what cosineSimilarity returned
    cos_pc,      \* "ready" | "returned"
    req,         \* the request: method and which query parameters are truthy
    pc,          \* where the handler is suspended, or "done"
    headers,     \* the response headers set so far
    responses,   \* the responses sent, in order
    calls,       \* the external calls issued, in order
    refMeta,     \* reference metadata ({keywords, genres, title})
    llmOutcome,  \* what the chat completion call did
    pool,        \* the candidate pool (a JavaScript value)
    enrichOutcome,  \* per pool item, where its catalog lookup stands or how it ended
    results,     \* the array Promise.all collects in enrichPoolWithMetadata
    enriched,    \* the pool after enrichPoolWithMetadata
    moodEmbedding,  \* the embedding of the mood context
    embedOutcome,   \* per category, what the batch embedding call did
    scored,      \* per category, what hybridScore returned
    spotifyOutcome  \* what the playlist provider did

finVars == <<fin_input, fin_items, fin_ret, fin_pc, fin_order>>
cosVars == <<cos_a, cos_b, cos_ret, cos_pc>>
reqVars == <<req, pc, headers, responses, calls, refMeta, llmOutcome, pool,
             enrichOutcome, results, enriched,
             moodEmbedding, embedOutcome, scored, spotifyOutcome>>
ovVars == <<ov_ref, ov_tags, ov_ret, ov_pc>>
hsVars == <<hs_items, hs_mood, hs_ref, hs_embed, hs_ret>>
pureVars == <<finVars, cosVars, ovVars, hsVars>>
vars == <<finVars, cosVars, ovVars, hsVars, reqVars>>

(***************************************************************************)
(* JavaScript values.  A Number is a record: a finite value in thousandths *)
(* (kind "num"), NaN, or the absent value undefined.                       *)
(***************************************************************************)
FixedOne == 1000

Num(v) == [kind |-> "num", v |-> v]
NaN == [kind |-> "nan", v |-> 0]
Undefined == [kind |-> "undef", v |-> 0]

Min(a, b) == IF a < b THEN a ELSE b
Abs(x) == IF x < 0 THEN -x ELSE x

\* An array value or a non-array value (undefined, null, an object).
Arr(elems) == [isArray |-> TRUE, elems |-> elems]
NotArray == [isArray |-> FALSE, elems |-> <<>>]

\* Array.prototype.slice(from, to): 0-based, `to` exclusive and clamped.
Slice(s, from, to) == SubSeq(s, from + 1, Min(to, Len(s)))

(***************************************************************************)
(* cosineSimilarity                                                        *)
(***************************************************************************)
RECURSIVE SumSeq(_)
SumSeq(s) == IF s = <<>> THEN 0 ELSE s[1] + SumSeq(Tail(s))

\* Math.sqrt on a non-negative integer, rounded down (bisection).
RECURSIVE SqrtBetween(_, _, _)
SqrtBetween(n, lo, hi) ==
    IF lo >= hi THEN lo
    ELSE LET mid == (lo + hi + 1) \div 2
         IN  IF mid * mid <= n THEN SqrtBetween(n, mid, hi)
             ELSE SqrtBetween(n, lo, mid - 1)

ISqrt(n) == SqrtBetween(n, 0, Min(n, 40000))

\* a.reduce((sum, ai, i) => sum + ai * b[i], 0): b[i] is undefined past the
\* end of b, and a number times undefined is NaN.
Dot(a, b) ==
    IF Len(a) > Len(b) THEN NaN
    ELSE Num(SumSeq([i \in 1..Len(a) |-> a[i] * b[i]]))

\* a.reduce((sum, ai) => sum + ai * ai, 0), the square of the norm.
NormSq(a) == SumSeq([i \in 1..Len(a) |-> a[i] * a[i]])

\* dot / (normA * normB) in IEEE arithmetic: NaN / x is NaN, 0 / 0 is NaN,
\* x / 0 is an infinity, anything else the quotient (in thousandths).
Divide(dot, normSqProduct) ==
    IF dot.kind = "nan" THEN NaN
    ELSE IF normSqProduct = 0
         THEN IF dot.v = 0 THEN NaN ELSE [kind |-> "inf", v |-> 0]
         ELSE LET den == ISqrt(normSqProduct * FixedOne * FixedOne)
                  q == (Abs(dot.v) * FixedOne * FixedOne) \div den
              IN  Num(IF dot.v < 0 THEN -q ELSE q)

cosineSimilarity(a, b) == Divide(Dot(a, b), NormSq(a) * NormSq(b))

(***************************************************************************)
(* finalizeResults                                                         *)
(***************************************************************************)
TopBand == 12
FinalCount == 6

\* (x.score || 0): undefined, NaN and 0 are falsy.
ScoreOrZero(item) == IF item.score.kind = "num" THEN item.score.v ELSE 0

\* Mutant: the comparator with its operands swapped (an ascending sort).
CompareScores_Ascending(a, b) == ScoreOrZero(a) - ScoreOrZero(b)

\* The comparator of items.sort: (a, b) => (b.score || 0) - (a.score || 0).
CompareScores(a, b) == ScoreOrZero(b) - ScoreOrZero(a)

\* One insertion of a stable sort: x goes after every element the comparator
\* does not order after it.
InsertByScore(sorted, x) ==
    LET p == Cardinality({i \in 1..Len(sorted) : CompareScores(sorted[i], x) <= 0})
    IN  SubSeq(sorted, 1, p) \o <<x>> \o SubSeq(sorted, p + 1, Len(sorted))

\* Mutant: the list is not sorted before the top band is cut.
SortByScore_Unsorted(items) == items

\* items.sort(comparator): Array.prototype.sort is stable.
RECURSIVE SortByScore(_)
SortByScore(items) ==
    IF items = <<>> THEN <<>>
    ELSE InsertByScore(SortByScore(SubSeq(items, 1, Len(items) - 1)), items[Len(items)])

Injective(f) == \A i, j \in DOMAIN f : i # j => f[i] # f[j]

\* What Math.random decides in shuffleArray(arr).slice(0, n) for an arr of
\* length len: arr.sort(() => Math.random() - 0.5) leaves some permutation of
\* arr (an insertion sort under a random comparator can leave any of them),
\* so the slice holds any Min(n, len) distinct positions of arr, in any order.
RandomPicks(len, n) == {g \in [1..Min(n, len) -> 1..len] : Injective(g)}

\* shuffleArray(arr).slice(0, n) under the random outcome `pick`.
ShuffledSlice(arr, pick) == [i \in DOMAIN pick |-> arr[pick[i]]]

\* The array finalizeResults leaves behind: items.sort sorts in place.
SortedInPlace(items) == IF items.isArray THEN Arr(SortByScore(items.elems)) ELSE items

\* The random outcomes finalizeResults(items) can meet.
FinalizePicks(items) ==
    IF ~items.isArray THEN {<<>>}
    ELSE RandomPicks(Min(Len(items.elems), TopBand), FinalCount)

\* The return statement of finalizeResults, reading the array the sort left:
\* shuffleArray(items.slice(0, 12)).slice(0, 6).
FinalizeReturn(sortedItems, pick) ==
    IF ~sortedItems.isArray THEN <<>>
    ELSE ShuffledSlice(Slice(sortedItems.elems, 0, TopBand), pick)

\* finalizeResults(items) under the random outcome `pick`.
finalizeResults(items, pick) == FinalizeReturn(SortedInPlace(items), pick)

(***************************************************************************)
(* Inputs of the pure functions.                                           *)
(***************************************************************************)
MaxSmallLen == 2     \* lists up to this length take every combination of scores
MaxItems == 13       \* the longest list handed to finalizeResults
MaxVecLen == 2       \* the longest vector handed to cosineSimilarity

RECURSIVE SeqsUpTo(_, _)
SeqsUpTo(S, n) ==
    IF n = 0 THEN {<<>>}
    ELSE LET shorter == SeqsUpTo(S, n - 1)
         IN  shorter \cup {Append(s, x) : s \in {t \in shorter : Len(t) = n - 1}, x \in S}

SampleScores == {Num(-FixedOne), Num(0), Num(FixedOne \div 2), NaN, Undefined}

\* A scored item: its position in the pool (its identity) and its score.
Item(k, score) == [key |-> k, score |-> score]

KeyItems(scores) == [i \in 1..Len(scores) |-> Item(i, scores[i])]

\* A longer list: scores repeat with period 10 so that the list is unsorted,
\* has ties, a NaN and a missing score, and its lowest item is not its last.
CycleScores ==
    <<Num(250), NaN, Num(900), Num(-800), Undefined,
      Num(250), Num(500), Num(900), Num(-300), Num(0)>>
CycleList(n) == [i \in 1..n |-> Item(i, CycleScores[((i - 1) % Len(CycleScores)) + 1])]

LongLens == {5, 6, 7, MaxItems}

FinalizeInputs ==
    {NotArray}
    \cup {Arr(KeyItems(s)) : s \in SeqsUpTo(SampleScores, MaxSmallLen)}
    \cup {Arr(CycleList(n)) : n \in LongLens}

SampleVectors == SeqsUpTo({-1, 0, 1}, MaxVecLen)

(***************************************************************************)
(* Strings.  A term (a tag, a keyword, a genre) is a sequence of words     *)
(* separated by single spaces; toLowerCase acts word by word.              *)
(***************************************************************************)
Lower(w) ==
    CASE w = "Drama" -> "drama"
      [] w = "Comedy" -> "comedy"
      [] w = "Space" -> "space"
      [] w = "Opera" -> "opera"
      [] OTHER -> w

\* tagString.toLowerCase().split(/[\s,]+/) for tagString = tags.join(" "):
\* the lower-cased words of all the tags.
Tokens(tags) == UNION {{Lower(tags[i][j]) : j \in 1..Len(tags[i])} : i \in 1..Len(tags)}

\* t.includes(k.toLowerCase()): a token holds no white space, so only a
\* one-word term can equal one.
TermMatches(term, tokens) == Len(term) = 1 /\ Lower(term[1]) \in tokens

\* keywordOverlap(ref, tags), in thousandths.
keywordOverlap(ref, tags) ==
    IF Len(ref) = 0 THEN 0
    ELSE LET t == Tokens(tags)
             hits == Cardinality({i \in 1..Len(ref) : TermMatches(ref[i], t)})
         IN  (hits * FixedOne) \div Len(ref)

\* genreOverlap(ref, tags), in thousandths: the same computation.
genreOverlap(ref, tags) ==
    IF Len(ref) = 0 THEN 0
    ELSE LET t == Tokens(tags)
             hits == Cardinality({i \in 1..Len(ref) : TermMatches(ref[i], t)})
         IN  (hits * FixedOne) \div Len(ref)

(***************************************************************************)
(* hybridScore                                                             *)
(***************************************************************************)
WeightSimilarity == 5
WeightKeyword == 3
WeightGenre == 2

\* An entry of the embeddings array: a vector, or undefined.
Vec(v) == [def |-> TRUE, vec |-> v]
NoVec == [def |-> FALSE, vec |-> <<>>]

\* (embeddings[idx] || [])
OrEmpty(e) == IF e.def THEN e.vec ELSE <<>>

\* Mutant: the weights of the keyword score and of the genre score swapped.
WeightedScore_SwappedWeights(sim, keywordScore, genreScore) ==
    IF sim.kind # "num" THEN sim
    ELSE Num((WeightSimilarity * sim.v + WeightGenre * keywordScore
              + WeightKeyword * genreScore) \div 10)

\* 0.5 * sim + 0.3 * keywordScore + 0.2 * genreScore: NaN is contagious.
WeightedScore(sim, keywordScore, genreScore) ==
    IF sim.kind # "num" THEN sim
    ELSE Num((WeightSimilarity * sim.v + WeightKeyword * keywordScore
              + WeightGenre * genreScore) \div 10)

ScoreItem(item, moodEmb, embedding, refKeywords, refGenres) ==
    [key |-> item.key, type |-> item.type, tags |-> item.tags, title |-> item.title,
     desc |-> item.desc, id |-> item.id, image |-> item.image,
     score |-> WeightedScore(cosineSimilarity(moodEmb, OrEmpty(embedding)),
                             keywordOverlap(refKeywords, item.tags),
                             genreOverlap(refGenres, item.tags))]

\* Mutant: no check of the embedding count; a missing embedding is read as
\* undefined.
hybridScore_NoCountCheck(items, moodEmb, embeddings, refKeywords, refGenres) ==
    [idx \in 1..Len(items) |->
        ScoreItem(items[idx], moodEmb,
                  IF idx <= Len(embeddings) THEN embeddings[idx] ELSE NoVec,
                  refKeywords, refGenres)]

\* hybridScore(items, moodEmbedding, refKeywords, refGenres) once embedTexts
\* has returned `embeddings`: an empty batch and a batch whose embeddings do
\* not match the items one to one score nothing.
hybridScore(items, moodEmb, embeddings, refKeywords, refGenres) ==
    IF Len(items) = 0 THEN <<>>
    ELSE IF Len(embeddings) # Len(items) THEN <<>>
    ELSE [idx \in 1..Len(items) |->
            ScoreItem(items[idx], moodEmb, embeddings[idx], refKeywords, refGenres)]

(***************************************************************************)
(* The external collaborators' answers.                                    *)
(***************************************************************************)
MaxPool == 2         \* the longest candidate pool a provider returns
MaxResults == 6      \* the most results one catalog search returns

SearchLimit == 5
TrendingLimit == 15

CategoryOf == <<"movie", "tv", "book">>
Categories == {"movie", "tv", "book"}
ItemTypes == Categories \cup {"podcast"}

\* The tags of the pool item at position k: every other item is a drama.
TagsOfKey(k) == IF k % 2 = 1 THEN <<<<"Drama">>>> ELSE <<>>

\* A candidate as the LLM describes it: no id, no image.
LLMItem(k, type) ==
    [key |-> k, type |-> type, tags |-> TagsOfKey(k), title |-> "llm", desc |-> "llm",
     id |-> "none", image |-> ""]

LLMPool(types) == [k \in 1..Len(types) |-> LLMItem(k, types[k])]

\* A JavaScript value standing where the pool is expected.
JsArray(elems) == [kind |-> "array", elems |-> elems]
JsOther(kind) == [kind |-> kind, elems |-> <<>>]

\* What the chat completion call does: it raises, or it returns a content
\* string: JSON of some kind (or text that is no JSON), fenced or not.
LLMContent(fenced, json, types) ==
    [kind |-> "content", fenced |-> fenced, json |-> json, types |-> types]
LLMThrow == [kind |-> "throw", fenced |-> FALSE, json |-> "none", types |-> <<>>]
LLMNotCalled == [kind |-> "none", fenced |-> FALSE, json |-> "none", types |-> <<>>]

LLMOutcomes ==
    {LLMThrow}
    \cup {LLMContent(FALSE, "array", types) : types \in SeqsUpTo(ItemTypes, MaxPool)}
    \cup {LLMContent(TRUE, "array", types) : types \in SeqsUpTo({"movie"}, 1)}
    \cup {LLMContent(FALSE, json, <<>>) :
            json \in {"empty", "invalid", "null", "number", "object", "string"}}

\* raw.replace(/^```(?:json)?\n/, "").replace(/\n```$/, "")
StripFence(content) == [content EXCEPT !.fenced = FALSE]

\* JSON.parse(raw): the parsed value, or a SyntaxError.
JSONParse(content) ==
    IF content.fenced \/ content.json = "invalid"
    THEN [threw |-> TRUE, value |-> JsOther("none")]
    ELSE [threw |-> FALSE,
          value |-> IF content.json = "array" THEN JsArray(LLMPool(content.types))
                    ELSE JsOther(content.json)]

\* fetchOpenAIPool: the provider call is outside the try block, the parse
\* inside it; an absent content counts as "[]".
fetchOpenAIPool(outcome) ==
    IF outcome.kind = "throw" THEN [threw |-> TRUE, value |-> JsOther("none")]
    ELSE LET raw == IF outcome.json = "empty"
                    THEN LLMContent(FALSE, "array", <<>>) ELSE outcome
             stripped == IF raw.fenced THEN StripFence(raw) ELSE raw
             parsed == JSONParse(stripped)
         IN  IF parsed.threw THEN [threw |-> FALSE, value |-> JsArray(<<>>)]
             ELSE [threw |-> FALSE, value |-> parsed.value]

\* Reading pool.length: a TypeError on null, undefined on a number or an
\* object, the length on an array or a (non-empty) string.
LengthThrows(p) == p.kind = "null"
LengthFalsy(p) == p.kind \in {"number", "object"} \/ (p.kind = "array" /\ Len(p.elems) = 0)

\* The fallback pool: (trendingResp.results || []).slice(0, 15) as movies.
TrendingItem(k) ==
    [key |-> k, type |-> "movie", tags |-> <<>>, title |-> "trending", desc |-> "trending",
     id |-> "catalog", image |-> "url"]
TrendingPool(n) == Slice([k \in 1..n |-> TrendingItem(k)], 0, TrendingLimit)

\* Mutant: a catalog match also overwrites the type, with the catalog's own.
EnrichItem_TypeFromCatalog(item, outcome) ==
    IF outcome = "hit"
    THEN [item EXCEPT !.id = "catalog", !.title = "catalog", !.desc = "catalog",
                      !.image = "url", !.type = "movie"]
    ELSE item

\* One item of enrichPoolWithMetadata: a catalog match overwrites id, title,
\* desc and image; no result and a failed lookup return the item itself.
EnrichOutcomes == {"hit", "miss", "fail"}
EnrichItem(item, outcome) ==
    IF outcome = "hit"
    THEN [item EXCEPT !.id = "catalog", !.title = "catalog", !.desc = "catalog",
                      !.image = "url"]
    ELSE item

\* Mutant: a lookup that fails is not caught and rejects the batch.
LookupItem_NoCatch(item, outcome) ==
    [threw |-> outcome = "fail", value |-> EnrichItem(item, outcome)]

\* The callback of pool.map: both branches run inside try blocks whose catch
\* returns the item, so the promise of an item never rejects.
LookupItem(item, outcome) == [threw |-> FALSE, value |-> EnrichItem(item, outcome)]

\* How the first request of a lookup can end: a book is the best match of
\* the volume search; a movie or a tv match may lack poster or description
\* and need the detail request; no other type has a catalog to search.
SearchOutcomes(item) ==
    CASE item.type = "book" -> {"hit", "miss", "fail"}
      [] item.type \in {"movie", "tv"} -> {"hit", "detail", "miss", "fail"}
      [] OTHER -> {"miss", "fail"}

\* A slot of the results array that no promise has filled yet.
Pending ==
    [key |-> 0, type |-> "pending", tags |-> <<>>, title |-> "", desc |-> "",
     id |-> "none", image |-> ""]

\* Mutant: a result is appended when its lookup completes (it takes the
\* first free slot).
Collect_OnCompletion(collected, i, value) ==
    LET free == {j \in 1..Len(collected) : collected[j] = Pending}
        first == CHOOSE j \in free : \A k \in free : j <= k
    IN  [collected EXCEPT ![first] = value]

\* Promise.all(pool.map(...)): the value of the promise at index i becomes
\* element i of the results, whenever it settles.
Collect(collected, i, value) == [collected EXCEPT ![i] = value]

\* enrichPoolWithMetadata as a function of how each lookup ended.
enrichPoolWithMetadata(items, outcomes) ==
    [i \in 1..Len(items) |-> EnrichItem(items[i], outcomes[i])]

\* fetchReferenceData: a failure is caught and gives the "Unknown" record.
RefDefault == [keywords |-> <<>>, genres |-> <<>>, title |-> ""]
RefUnknown == [keywords |-> <<>>, genres |-> <<>>, title |-> "Unknown"]
RefFound ==
    [keywords |-> <<<<"drama">>, <<"space", "opera">>>>, genres |-> <<<<"Drama">>>>,
     title |-> "ref"]
fetchReferenceData(ok) == IF ok THEN RefFound ELSE RefUnknown

\* What the batch embedding call of one category does.
EmbedOutcomes == {"ok", "holes", "short", "long", "throw"}
EmbeddingOfKey(k) == IF k % 2 = 1 THEN Vec(<<1, 0>>) ELSE Vec(<<0, -1>>)
EmbeddingsFor(items, outcome) ==
    LET full == [i \in 1..Len(items) |-> EmbeddingOfKey(items[i].key)]
    IN  CASE outcome = "ok" -> full
          [] outcome = "holes" -> [i \in 1..Len(items) |-> IF i = 1 THEN NoVec ELSE full[i]]
          [] outcome = "short" -> SubSeq(full, 1, Len(items) - 1)
          [] outcome = "long" -> Append(full, Vec(<<1, 0>>))
          [] OTHER -> <<>>

\* fetchSpotifyPlaylist: everything is inside one try block, and an empty
\* result list returns null.
SpotifyOutcomes == {"token_throw", "token_denied", "search_throw", "empty", "ok"}
\* Mutant: no try block around the token exchange and the search.
fetchSpotifyPlaylist_NoCatch(outcome) ==
    [threw |-> outcome \in {"token_throw", "search_throw"},
     value |-> IF outcome = "ok" THEN "playlist_url" ELSE "null"]

fetchSpotifyPlaylist(outcome) ==
    [threw |-> FALSE, value |-> IF outcome = "ok" THEN "playlist_url" ELSE "null"]

(***************************************************************************)
(* The handler.                                                            *)
(***************************************************************************)
CorsHeaders ==
    {"Access-Control-Allow-Origin", "Access-Control-Allow-Methods",
     "Access-Control-Allow-Headers"}

Requests ==
    [method : {"GET", "OPTIONS"}, query : BOOLEAN, mood : BOOLEAN, ref : BOOLEAN]

NoBody == [kind |-> "none"]
ErrorBody(error, details) == [kind |-> "error", error |-> error, details |-> details]

Response(status, body, hdrs) == [status |-> status, body |-> body, headers |-> hdrs]

\* Mutant: a category is handed the whole pool.
Filter_NoTypeCheck(items, type) == items

\* enrichedPool.filter(i => i.type === type)
Filter(items, type) == SelectSeq(items, LAMBDA i : i.type = type)

EmptyScored == [c \in Categories |-> <<>>]
NoEmbedOutcome == [c \in Categories |-> "none"]

HandlerInit ==
    /\ req \in Requests
    /\ pc = "start"
    /\ headers = {}
    /\ responses = <<>>
    /\ calls = <<>>
    /\ refMeta = RefDefault
    /\ llmOutcome = LLMNotCalled
    /\ pool = JsOther("none")
    /\ enrichOutcome = <<>>
    /\ results = <<>>
    /\ enriched = <<>>
    /\ moodEmbedding = <<>>
    /\ embedOutcome = NoEmbedOutcome
    /\ scored = EmptyScored
    /\ spotifyOutcome = "none"

HandlerIdle ==
    /\ req = [method |-> "GET", query |-> FALSE, mood |-> FALSE, ref |-> FALSE]
    /\ pc = "idle"
    /\ headers = {}
    /\ responses = <<>>
    /\ calls = <<>>
    /\ refMeta = RefDefault
    /\ llmOutcome = LLMNotCalled
    /\ pool = JsOther("none")
    /\ enrichOutcome = <<>>
    /\ results = <<>>
    /\ enriched = <<>>
    /\ moodEmbedding = <<>>
    /\ embedOutcome = NoEmbedOutcome
    /\ scored = EmptyScored
    /\ spotifyOutcome = "none"

\* Mutant: the catch block logs the error and sends nothing.
Fail_NoResponse(details) ==
    /\ UNCHANGED responses
    /\ pc' = "done"

\* The catch block of the handler: res.status(500).json({error, details}).
Fail(details) ==
    /\ responses' = Append(responses,
          Response(500, ErrorBody("Recommendation failed", details), headers))
    /\ pc' = "done"

\* Mutant: only the origin header is set.
SetCorsHeaders_OriginOnly == headers' = headers \cup {"Access-Control-Allow-Origin"}

\* The three setHeader calls that open the handler.
SetCorsHeaders == headers' = headers \cup CorsHeaders

\* OPTIONS: res.status(200).end().
Preflight ==
    /\ pc = "start"
    /\ req.method = "OPTIONS"
    /\ SetCorsHeaders
    /\ responses' = Append(responses, Response(200, NoBody, headers'))
    /\ pc' = "done"
    /\ UNCHANGED <<pureVars, req, calls, refMeta, llmOutcome, pool, enrichOutcome, results, enriched,
                   moodEmbedding, embedOutcome, scored, spotifyOutcome>>

\* if (query): the three catalog searches are issued.
StartSearch ==
    /\ pc = "start"
    /\ req.method # "OPTIONS"
    /\ req.query
    /\ SetCorsHeaders
    /\ calls' = calls \o <<"search_movie", "search_tv", "search_book">>
    /\ pc' = "search"
    /\ UNCHANGED <<pureVars, req, responses, refMeta, llmOutcome, pool, enrichOutcome, results, enriched,
                   moodEmbedding, embedOutcome, scored, spotifyOutcome>>

\* Mutant: the records of a catalog are not cut to the first five.
SearchRecords_NoLimit(type, n) == [k \in 1..n |-> [type |-> type, id |-> k]]

\* (res.results || []).map(...) then .slice(0, 5): the records of one catalog.
SearchRecords(type, n) == Slice([k \in 1..n |-> [type |-> type, id |-> k]], 0, SearchLimit)

\* The searches return (or one of them fails).
SearchReturn ==
    /\ pc = "search"
    /\ \/ Fail("search failed")
       \/ \E m, t, b \in 0..MaxResults :
            /\ responses' = Append(responses,
                  Response(200,
                           [kind |-> "search",
                            items |-> SearchRecords("movie", m) \o SearchRecords("tv", t)
                                        \o SearchRecords("book", b)],
                           headers))
            /\ pc' = "done"
    /\ UNCHANGED <<pureVars, req, headers, calls, refMeta, llmOutcome, pool, enrichOutcome, results, enriched,
                   moodEmbedding, embedOutcome, scored, spotifyOutcome>>

\* Mutant: the mood check comes after the pool request has been issued.
RejectMissingMood_AfterPool ==
    /\ pc = "start"
    /\ req.method # "OPTIONS"
    /\ ~req.query
    /\ ~req.mood
    /\ SetCorsHeaders
    /\ calls' = Append(calls, "llm")
    /\ responses' = Append(responses,
          Response(400, ErrorBody("Missing mood input", "none"), headers'))
    /\ pc' = "done"
    /\ UNCHANGED <<pureVars, req, refMeta, llmOutcome, pool, enrichOutcome, results, enriched,
                   moodEmbedding, embedOutcome, scored, spotifyOutcome>>

\* if (!mood): res.status(400).json({error: "Missing mood input"}).
RejectMissingMood ==
    /\ pc = "start"
    /\ req.method # "OPTIONS"
    /\ ~req.query
    /\ ~req.mood
    /\ SetCorsHeaders
    /\ responses' = Append(responses,
          Response(400, ErrorBody("Missing mood input", "none"), headers'))
    /\ pc' = "done"
    /\ UNCHANGED <<pureVars, req, calls, refMeta, llmOutcome, pool, enrichOutcome, results, enriched,
                   moodEmbedding, embedOutcome, scored, spotifyOutcome>>

\* refId && refType: fetchReferenceData is awaited first.
StartReference ==
    /\ pc = "start"
    /\ req.method # "OPTIONS"
    /\ ~req.query
    /\ req.mood
    /\ req.ref
    /\ SetCorsHeaders
    /\ calls' = Append(calls, "reference")
    /\ pc' = "ref"
    /\ UNCHANGED <<pureVars, req, responses, refMeta, llmOutcome, pool, enrichOutcome, results, enriched,
                   moodEmbedding, embedOutcome, scored, spotifyOutcome>>

ReferenceReturn ==
    /\ pc = "ref"
    /\ \E ok \in BOOLEAN : refMeta' = fetchReferenceData(ok)
    /\ calls' = Append(calls, "llm")
    /\ pc' = "pool"
    /\ UNCHANGED <<pureVars, req, headers, responses, llmOutcome, pool, enrichOutcome, results, enriched,
                   moodEmbedding, embedOutcome, scored, spotifyOutcome>>

\* No reference: the default metadata, and fetchOpenAIPool is awaited.
StartPool ==
    /\ pc = "start"
    /\ req.method # "OPTIONS"
    /\ ~req.query
    /\ req.mood
    /\ ~req.ref
    /\ SetCorsHeaders
    /\ refMeta' = RefDefault
    /\ calls' = Append(calls, "llm")
    /\ pc' = "pool"
    /\ UNCHANGED <<pureVars, req, responses, llmOutcome, pool, enrichOutcome, results, enriched,
                   moodEmbedding, embedOutcome, scored, spotifyOutcome>>

\* One entry per item: its catalog lookup (the search and, where the match
\* lacks poster or description, the detail request that follows it).
EnrichCalls(items) == [i \in 1..Len(items) |-> "enrich"]

\* pool.map(async item => ...): every callback runs up to its first await,
\* the catalog search, and the results are all outstanding.
StartLookups(items) ==
    /\ enrichOutcome' = [i \in 1..Len(items) |-> "pending"]
    /\ results' = [i \in 1..Len(items) |-> Pending]

\* fetchOpenAIPool returns or raises; then if (!pool.length) the trending feed
\* is fetched, else enrichPoolWithMetadata(pool) starts its lookups.
PoolReturn ==
    /\ pc = "pool"
    /\ \E outcome \in LLMOutcomes :
         LET got == fetchOpenAIPool(outcome)
         IN  /\ llmOutcome' = outcome
             /\ IF got.threw
                THEN Fail("llm failed") /\ UNCHANGED <<pool, calls>>
                ELSE /\ pool' = got.value
                     /\ IF LengthThrows(got.value)
                        THEN Fail("cannot read length") /\ UNCHANGED calls
                        ELSE IF LengthFalsy(got.value)
                        THEN /\ calls' = Append(calls, "trending")
                             /\ pc' = "fallback"
                             /\ UNCHANGED responses
                        ELSE IF got.value.kind # "array"
                        THEN Fail("pool.map is not a function") /\ UNCHANGED calls
                        ELSE /\ calls' = calls \o EnrichCalls(got.value.elems)
                             /\ pc' = "enrich"
                             /\ UNCHANGED responses
             /\ IF ~got.threw /\ got.value.kind = "array" /\ Len(got.value.elems) > 0
                THEN StartLookups(got.value.elems)
                ELSE UNCHANGED <<enrichOutcome, results>>
    /\ UNCHANGED <<pureVars, req, headers, refMeta, enriched, moodEmbedding,
                   embedOutcome, scored, spotifyOutcome>>

\* The trending feed returns (or fails): its movies become the pool.
FallbackReturn ==
    /\ pc = "fallback"
    /\ \/ Fail("trending failed") /\ UNCHANGED <<pool, calls, enrichOutcome, results>>
       \/ \E n \in 0..MaxPool :
            /\ pool' = JsArray(TrendingPool(n))
            /\ calls' = calls \o EnrichCalls(TrendingPool(n))
            /\ StartLookups(TrendingPool(n))
            /\ pc' = "enrich"
            /\ UNCHANGED responses
    /\ UNCHANGED <<pureVars, req, headers, refMeta, llmOutcome, enriched,
                   moodEmbedding, embedOutcome, scored, spotifyOutcome>>

\* The promise of item i settles after a request that ended as `outcome`: its
\* value is collected, or (were it to reject) Promise.all rejects and the
\* handler's catch block answers.
Settle(i, outcome) ==
    LET r == LookupItem(pool.elems[i], outcome)
    IN  /\ enrichOutcome' = [enrichOutcome EXCEPT ![i] = outcome]
        /\ IF r.threw
           THEN Fail("lookup failed") /\ UNCHANGED results
           ELSE /\ results' = Collect(results, i, r.value)
                /\ UNCHANGED <<responses, pc>>

\* The catalog search of some item returns, in any order among the items:
\* the item settles, or its detail request is issued.
LookupReturn ==
    /\ pc = "enrich"
    /\ \E i \in 1..Len(pool.elems) :
         /\ enrichOutcome[i] = "pending"
         /\ \E outcome \in SearchOutcomes(pool.elems[i]) :
              IF outcome = "detail"
              THEN /\ enrichOutcome' = [enrichOutcome EXCEPT ![i] = "detail"]
                   /\ UNCHANGED <<results, responses, pc>>
              ELSE Settle(i, outcome)
    /\ UNCHANGED <<pureVars, req, headers, calls, refMeta, llmOutcome, pool, enriched,
                   moodEmbedding, embedOutcome, scored, spotifyOutcome>>

\* The detail request of some item returns (or fails).
DetailReturn ==
    /\ pc = "enrich"
    /\ \E i \in 1..Len(pool.elems) :
         /\ enrichOutcome[i] = "detail"
         /\ \E outcome \in {"hit", "fail"} : Settle(i, outcome)
    /\ UNCHANGED <<pureVars, req, headers, calls, refMeta, llmOutcome, pool, enriched,
                   moodEmbedding, embedOutcome, scored, spotifyOutcome>>

\* Every promise has settled: enrichPoolWithMetadata returns the results,
\* and embedText(mood context) is awaited.
EnrichReturn ==
    /\ pc = "enrich"
    /\ \A i \in 1..Len(pool.elems) : enrichOutcome[i] \in EnrichOutcomes
    /\ enriched' = results
    /\ calls' = Append(calls, "embed_mood")
    /\ pc' = "embedMood"
    /\ UNCHANGED <<pureVars, req, headers, responses, refMeta, llmOutcome, pool, enrichOutcome,
                   results, moodEmbedding, embedOutcome, scored, spotifyOutcome>>

\* One batch embedding call per category that has items.
EmbedCalls(items) ==
    LET busy == SelectSeq(CategoryOf, LAMBDA c : Filter(items, c) # <<>>)
    IN  [i \in 1..Len(busy) |-> "embed_batch"]

\* embedText returns (or raises); the three hybridScore calls start.
EmbedMoodReturn ==
    /\ pc = "embedMood"
    /\ \/ Fail("embedding failed") /\ UNCHANGED <<moodEmbedding, calls>>
       \/ /\ moodEmbedding' = <<1, 0>>
          /\ calls' = calls \o EmbedCalls(enriched)
          /\ pc' = "score"
          /\ UNCHANGED responses
    /\ UNCHANGED <<pureVars, req, headers, refMeta, llmOutcome, pool, enrichOutcome, results, enriched,
                   embedOutcome, scored, spotifyOutcome>>

\* What the three batch calls can do: a category without items makes none.
EmbedOutcomeMaps(items) ==
    {eo \in [Categories -> EmbedOutcomes \cup {"none"}] :
        \A c \in Categories : (eo[c] = "none") <=> (Filter(items, c) = <<>>)}

\* Promise.all of the three hybridScore calls settles: it rejects if one of
\* them raised; otherwise fetchSpotifyPlaylist is awaited.
ScoreReturn ==
    /\ pc = "score"
    /\ \E eo \in EmbedOutcomeMaps(enriched) :
         /\ embedOutcome' = eo
         /\ IF \E c \in Categories : eo[c] = "throw"
            THEN Fail("embedding failed") /\ UNCHANGED <<scored, calls>>
            ELSE /\ scored' =
                      [c \in Categories |->
                          hybridScore(Filter(enriched, c), moodEmbedding,
                                      EmbeddingsFor(Filter(enriched, c), eo[c]),
                                      refMeta.keywords, refMeta.genres)]
                 /\ calls' = Append(calls, "spotify_token")
                 /\ pc' = "spotify"
                 /\ UNCHANGED responses
    /\ UNCHANGED <<pureVars, req, headers, refMeta, llmOutcome, pool, enrichOutcome, results, enriched,
                   moodEmbedding, spotifyOutcome>>

MoodBody(movies, tv, books, spotify) ==
    [kind |-> "mood", movies |-> movies, tv |-> tv, books |-> books, spotify |-> spotify]

\* fetchSpotifyPlaylist returns; the three lists are finalized (each sorted
\* in place, then shuffled) and res.status(200).json(...) is sent.
SpotifyReturn ==
    /\ pc = "spotify"
    /\ scored' = [c \in Categories |-> SortByScore(scored[c])]
    /\ \E outcome \in SpotifyOutcomes :
         LET got == fetchSpotifyPlaylist(outcome)
         IN  /\ spotifyOutcome' = outcome
             /\ calls' = IF outcome = "token_throw" THEN calls
                         ELSE Append(calls, "spotify_search")
             /\ IF got.threw
                THEN Fail("playlist failed")
                ELSE /\ \E pm \in FinalizePicks(Arr(scored["movie"])),
                           pt \in FinalizePicks(Arr(scored["tv"])),
                           pb \in FinalizePicks(Arr(scored["book"])) :
                          responses' = Append(responses,
                             Response(200,
                                      MoodBody(finalizeResults(Arr(scored["movie"]), pm),
                                               finalizeResults(Arr(scored["tv"]), pt),
                                               finalizeResults(Arr(scored["book"]), pb),
                                               got.value),
                                      headers))
                     /\ pc' = "done"
    /\ UNCHANGED <<pureVars, req, headers, refMeta, llmOutcome, pool, enrichOutcome, results, enriched,
                   moodEmbedding, embedOutcome>>

Next ==
    \/ Preflight
    \/ StartSearch
    \/ SearchReturn
    \/ RejectMissingMood
    \/ StartReference
    \/ ReferenceReturn
    \/ StartPool
    \/ PoolReturn
    \/ FallbackReturn
    \/ LookupReturn
    \/ DetailReturn
    \/ EnrichReturn
    \/ EmbedMoodReturn
    \/ ScoreReturn
    \/ SpotifyReturn

(***************************************************************************)
(* finalizeResults applied to one input.                                   *)
(***************************************************************************)
\* How many of the scores `keys` are strictly higher than the one at p.
StrictlyHigher(keys, p) == Cardinality({j \in DOMAIN keys : keys[j] > keys[p]})

\* How many positions a stable descending sort puts before position p: the
\* higher-scored ones and the equal-scored earlier ones.
StableRank(keys, p) ==
    StrictlyHigher(keys, p) + Cardinality({j \in 1..(p - 1) : keys[j] = keys[p]})

\* The ranking of an input list by score, worked out from the scores alone
\* (not by sorting): a measure the claims read, no part of the program.
InputOrder(items) ==
    LET keys == [j \in 1..Len(items.elems) |-> ScoreOrZero(items.elems[j])]
    IN  [higher |-> [p \in DOMAIN keys |-> StrictlyHigher(keys, p)],
         rank |-> [p \in DOMAIN keys |-> StableRank(keys, p)]]

FinalizeInit ==
    /\ fin_input \in FinalizeInputs
    /\ fin_items = fin_input
    /\ fin_ret = <<>>
    /\ fin_pc = "ready"
    /\ fin_order = InputOrder(fin_input)

FinalizeCall ==
    /\ fin_pc = "ready"
    /\ fin_items' = SortedInPlace(fin_items)
    /\ fin_pc' = "returned"
    /\ UNCHANGED <<fin_input, fin_order, cosVars, ovVars, hsVars, reqVars>>
    /\ \E pick \in FinalizePicks(fin_items) : fin_ret' = FinalizeReturn(fin_items', pick)

FinalizeIdle ==
    /\ fin_input = NotArray /\ fin_items = NotArray /\ fin_ret = <<>> /\ fin_pc = "idle"
    /\ fin_order = InputOrder(NotArray)

(***************************************************************************)
(* cosineSimilarity applied to one pair of vectors.                        *)
(***************************************************************************)
CosineInit ==
    /\ cos_a \in SampleVectors
    /\ cos_b \in SampleVectors
    /\ cos_ret = Undefined
    /\ cos_pc = "ready"

CosineCall ==
    /\ cos_pc = "ready"
    /\ cos_ret' = cosineSimilarity(cos_a, cos_b)
    /\ cos_pc' = "returned"
    /\ UNCHANGED <<cos_a, cos_b, finVars, ovVars, hsVars, reqVars>>

CosineIdle ==
    /\ cos_a = <<>> /\ cos_b = <<>> /\ cos_ret = Undefined /\ cos_pc = "idle"

(***************************************************************************)
(* keywordOverlap and genreOverlap applied to one reference set and one    *)
(* tag list.                                                               *)
(***************************************************************************)
MaxTerms == 2        \* the most reference terms, and the most tags

\* Terms of one word and of two, in lower and in mixed case.
SampleTerms ==
    {<<"drama">>, <<"Drama">>, <<"comedy">>, <<"space", "opera">>, <<"Space", "Opera">>}

NoOverlap == [keyword |-> 0, genre |-> 0]

OverlapInit ==
    /\ ov_ref \in SeqsUpTo(SampleTerms, MaxTerms)
    /\ ov_tags \in SeqsUpTo(SampleTerms, MaxTerms)
    /\ ov_ret = NoOverlap
    /\ ov_pc = "ready"

OverlapCall ==
    /\ ov_pc = "ready"
    /\ ov_ret' = [keyword |-> keywordOverlap(ov_ref, ov_tags),
                  genre |-> genreOverlap(ov_ref, ov_tags)]
    /\ ov_pc' = "returned"
    /\ UNCHANGED <<ov_ref, ov_tags, finVars, cosVars, hsVars, reqVars>>

OverlapIdle ==
    /\ ov_ref = <<>> /\ ov_tags = <<>> /\ ov_ret = NoOverlap /\ ov_pc = "idle"

(***************************************************************************)
(* hybridScore applied twice to one candidate list, one mood embedding and *)
(* one reference; each call makes its own batch embedding call.            *)
(***************************************************************************)
ScoreCalls == 2

SampleMoods == {<<1, 0>>, <<0, 1>>, <<0, 0>>}

ScoreInit ==
    /\ hs_items \in {LLMPool([k \in 1..n |-> "movie"]) : n \in 0..MaxPool}
    /\ hs_mood \in SampleMoods
    /\ hs_ref \in {RefDefault, RefFound}
    /\ hs_embed \in [1..ScoreCalls -> EmbedOutcomes]
    /\ hs_ret = <<>>

\* One call of hybridScore: an empty list returns [] at once; otherwise the
\* call raises if embedTexts raises, and scores with what embedTexts returns.
ScoreCall ==
    /\ Len(hs_ret) < ScoreCalls
    /\ LET outcome == hs_embed[Len(hs_ret) + 1]
       IN  hs_ret' = Append(hs_ret,
              IF Len(hs_items) > 0 /\ outcome = "throw"
              THEN [threw |-> TRUE, value |-> <<>>]
              ELSE [threw |-> FALSE,
                    value |-> hybridScore(hs_items, hs_mood,
                                          EmbeddingsFor(hs_items, outcome),
                                          hs_ref.keywords, hs_ref.genres)])
    /\ UNCHANGED <<hs_items, hs_mood, hs_ref, hs_embed, finVars, cosVars, ovVars, reqVars>>

ScoreIdle ==
    /\ hs_items = <<>> /\ hs_mood = <<>> /\ hs_ref = RefDefault
    /\ hs_embed = <<>> /\ hs_ret = <<>>

(***************************************************************************)
(* Specifications: one request through the handler; one call of            *)
(* finalizeResults; one call of cosineSimilarity.                          *)
(***************************************************************************)
Init == HandlerInit /\ FinalizeIdle /\ CosineIdle /\ OverlapIdle /\ ScoreIdle

Spec == Init /\ [][Next]_vars

\* Every step of the handler but the return of the playlist lookup.
PipelineNext ==
    \/ Preflight
    \/ StartSearch
    \/ SearchReturn
    \/ RejectMissingMood
    \/ StartReference
    \/ ReferenceReturn
    \/ StartPool
    \/ PoolReturn
    \/ FallbackReturn
    \/ LookupReturn
    \/ DetailReturn
    \/ EnrichReturn
    \/ EmbedMoodReturn
    \/ ScoreReturn

\* One request where every external call but the playlist lookup completes
\* and the continuation behind every settled promise runs: the playlist
\* provider alone may take for ever.
SpecPlaylist == Init /\ [][Next]_vars /\ WF_vars(PipelineNext)

FinalizeNext == FinalizeCall

InitFinalize == FinalizeInit /\ CosineIdle /\ OverlapIdle /\ ScoreIdle /\ HandlerIdle

SpecFinalize == InitFinalize /\ [][FinalizeNext]_vars

CosineNext == CosineCall

InitCosine == CosineInit /\ FinalizeIdle /\ OverlapIdle /\ ScoreIdle /\ HandlerIdle

SpecCosine == InitCosine /\ [][CosineNext]_vars

OverlapNext == OverlapCall

InitOverlap == OverlapInit /\ FinalizeIdle /\ CosineIdle /\ ScoreIdle /\ HandlerIdle

SpecOverlap == InitOverlap /\ [][OverlapNext]_vars

ScoreNext == ScoreCall

InitScore == ScoreInit /\ FinalizeIdle /\ CosineIdle /\ OverlapIdle /\ HandlerIdle

SpecScore == InitScore /\ [][ScoreNext]_vars

(***************************************************************************)
(* Claims about finalizeResults (checked under SpecFinalize).              *)
(***************************************************************************)
FinReturnedList == fin_pc = "returned" /\ fin_input.isArray

FinLen == Len(fin_input.elems)

\* The returned items are pairwise distinct items of the input (an item is
\* identified by its key, its position in the input).
FinDistinctInputItems ==
    /\ Cardinality({fin_ret[i].key : i \in 1..Len(fin_ret)}) = Len(fin_ret)
    /\ \A i \in 1..Len(fin_ret) :
          /\ fin_ret[i].key \in 1..FinLen
          /\ fin_ret[i] = fin_input.elems[fin_ret[i].key]

\* C1 as stated: a list of k <= 12 items comes back with exactly k items, no
\* duplicates and nothing foreign; a list of k > 12 items comes back with
\* exactly 6 items, all among the 12 highest-scored.
C1_AsStated ==
    FinReturnedList =>
        /\ FinDistinctInputItems
        /\ FinLen <= TopBand => Len(fin_ret) = FinLen
        /\ FinLen > TopBand =>
              /\ Len(fin_ret) = FinalCount
              /\ \A i \in 1..Len(fin_ret) : fin_order.higher[fin_ret[i].key] < TopBand

\* C1 amended: a list of k <= 6 items comes back with exactly k items and a
\* list of k > 6 items with exactly 6; the items are pairwise distinct items
\* of the input, and for k > 12 each has fewer than 12 input items scored
\* strictly above it.
C1_FinalizeCount ==
    FinReturnedList =>
        /\ FinDistinctInputItems
        /\ FinLen <= FinalCount => Len(fin_ret) = FinLen
        /\ FinLen > FinalCount => Len(fin_ret) = FinalCount
        /\ FinLen > TopBand =>
              \A i \in 1..Len(fin_ret) : fin_order.higher[fin_ret[i].key] < TopBand

\* A list longer than the top band was finalized and the result holds its
\* last item, which the sort had to move into the band.
C1_Witness ==
    /\ FinReturnedList
    /\ FinLen > TopBand
    /\ Len(fin_ret) = FinalCount
    /\ \E i \in 1..Len(fin_ret) : fin_ret[i].key = FinLen

\* C2: whatever the shuffle does, finalizeResults returns min(6, k) pairwise
\* distinct input items, each among the first 12 of the stable descending
\* sort by score (a missing score counting as 0); an empty list and a
\* non-list input give an empty list.
C2_FinalizeBand ==
    fin_pc = "returned" =>
        /\ fin_input.isArray =>
              /\ Len(fin_ret) = Min(FinalCount, FinLen)
              /\ FinDistinctInputItems
              /\ \A i \in 1..Len(fin_ret) : fin_order.rank[fin_ret[i].key] < TopBand
        /\ (~fin_input.isArray \/ FinLen = 0) => fin_ret = <<>>

\* A list longer than the top band was finalized and an item without a
\* usable score (missing or NaN, ranked as 0) is among the six returned.
C2_Witness ==
    /\ FinReturnedList
    /\ FinLen > TopBand
    /\ Len(fin_ret) = FinalCount
    /\ \E i \in 1..Len(fin_ret) : fin_ret[i].score.kind # "num"

(***************************************************************************)
(* Claims about cosineSimilarity (checked under SpecCosine).               *)
(***************************************************************************)
\* C5 as stated: cosineSimilarity returns 0 whenever either vector has zero
\* norm (the empty vector included).
C5_ZeroNormGivesZero ==
    (cos_pc = "returned" /\ (NormSq(cos_a) = 0 \/ NormSq(cos_b) = 0)) => cos_ret = Num(0)

(***************************************************************************)
(* Claims about the handler (checked under Spec).                          *)
(***************************************************************************)
Called(name) == \E i \in 1..Len(calls) : calls[i] = name

MissingMoodResponse == Response(400, ErrorBody("Missing mood input", "none"), CorsHeaders)

\* C3 as stated: every request without `mood` is answered 400 {error:
\* "Missing mood input"} and issues no external call.
C3_AsStated ==
    ~req.mood =>
        /\ calls = <<>>
        /\ pc = "done" => responses = <<MissingMoodResponse>>

\* C3 amended: every request without `mood` that is no OPTIONS preflight and
\* carries no `query` parameter is answered 400 {error: "Missing mood
\* input"} and issues no external call, before or after the response.
C3_MissingMood ==
    (~req.mood /\ ~req.query /\ req.method # "OPTIONS") =>
        /\ calls = <<>>
        /\ pc \in {"start", "done"}
        /\ pc = "done" => responses = <<MissingMoodResponse>>

\* A GET without mood and without query has been answered 400.
C3_Witness ==
    /\ pc = "done"
    /\ req = [method |-> "GET", query |-> FALSE, mood |-> FALSE, ref |-> TRUE]
    /\ Len(responses) = 1
    /\ responses[1].status = 400

Mismatched(c) == embedOutcome[c] \in {"short", "long"}
NoCategoryThrew == \A c \in Categories : embedOutcome[c] # "throw"

\* The list of category c in a mood response body.
BodyList(body, c) ==
    CASE c = "movie" -> body.movies
      [] c = "tv" -> body.tv
      [] c = "book" -> body.books

\* C4: when the embedding provider returns a count of embeddings different
\* from the count of items for one category (and no batch call raises), that
\* category's scored list is empty, every category whose batch matched is
\* scored item by item, and the request completes with a 200 response.
C4_MismatchIsolated ==
    \A c \in Categories :
        (Mismatched(c) /\ NoCategoryThrew) =>
            /\ scored[c] = <<>>
            /\ \A d \in Categories :
                  embedOutcome[d] \in {"ok", "holes"} =>
                      /\ Len(scored[d]) = Len(Filter(enriched, d))
                      /\ {scored[d][i].key : i \in 1..Len(scored[d])}
                            = {enriched[i].key : i \in {j \in 1..Len(enriched) :
                                                          enriched[j].type = d}}
            /\ pc \in {"spotify", "done"}
            /\ pc = "done" =>
                  /\ Len(responses) = 1
                  /\ responses[1].status = 200
                  /\ BodyList(responses[1].body, c) = <<>>

\* The movie batch came back one embedding short, the book batch matched,
\* and the request was answered 200 with a book and no movie.
C4_Witness ==
    /\ pc = "done"
    /\ embedOutcome["movie"] = "short"
    /\ embedOutcome["book"] = "ok"
    /\ Len(responses) = 1
    /\ responses[1].status = 200
    /\ responses[1].body.movies = <<>>
    /\ responses[1].body.books # <<>>

LLMFailed(o) ==
    \/ o.kind = "throw"
    \/ o.kind = "content" /\ o.json \in {"invalid", "empty"}
    \/ o.kind = "content" /\ o.json = "array" /\ o.types = <<>>

\* C6 as stated: whenever the LLM request ends in a provider failure, a
\* malformed response or an empty array, the trending fallback is fetched
\* and the request is not answered with an error at that point.
C6_AsStated ==
    LLMFailed(llmOutcome) =>
        /\ Called("trending")
        /\ \A i \in 1..Len(responses) :
              responses[i].body.kind = "error" =>
                  responses[i].body.details # "llm failed"

\* C7 as stated: whatever content string the LLM returns, the parse outcome
\* leads to no 500 response.
C7_AsStated ==
    llmOutcome.kind = "content" =>
        \A i \in 1..Len(responses) :
            responses[i].body.kind = "error" =>
                responses[i].body.details
                    \notin {"cannot read length", "pool.map is not a function"}

SpotifyFailures == {"token_throw", "token_denied", "search_throw", "empty"}

\* The list is what finalizeResults makes of the scored list under some
\* outcome of the shuffle.
FinalizedFrom(list, scoredList) ==
    \E pick \in FinalizePicks(Arr(scoredList)) :
        list = finalizeResults(Arr(scoredList), pick)

\* C8: on every playlist-provider failure the lookup yields null and the
\* request is answered 200 with `spotify` null and with movies/tv/books
\* finalized from the scored lists, as when the lookup succeeds.
C8_PlaylistFailure ==
    spotifyOutcome \in SpotifyFailures =>
        /\ pc = "done"
        /\ Len(responses) = 1
        /\ responses[1].status = 200
        /\ responses[1].body.kind = "mood"
        /\ responses[1].body.spotify = "null"
        /\ \A c \in Categories : FinalizedFrom(BodyList(responses[1].body, c), scored[c])

\* The token exchange failed and the request was answered 200 with a movie.
C8_Witness ==
    /\ spotifyOutcome = "token_throw"
    /\ pc = "done"
    /\ Len(responses) = 1
    /\ responses[1].status = 200
    /\ responses[1].body.movies # <<>>

\* An exception was raised in the pipeline.
Raised ==
    \/ llmOutcome.kind = "throw"
    \/ \E c \in Categories : embedOutcome[c] = "throw"

\* C9: on every path exactly one response is sent per request (none while
\* the handler is still running, one once it is done), each either a
\* success payload or one structured error object; an exception raised in
\* the pipeline yields 500 {error, details}.
C9_OneResponse ==
    /\ Len(responses) = (IF pc = "done" THEN 1 ELSE 0)
    /\ \A i \in 1..Len(responses) :
          \/ responses[i].status = 200 /\ responses[i].body.kind \in {"none", "search", "mood"}
          \/ responses[i].status \in {400, 500} /\ responses[i].body.kind = "error"
    /\ Raised =>
          /\ Len(responses) = 1
          /\ responses[1].status = 500
          /\ responses[1].body.kind = "error"
          /\ responses[1].body.error = "Recommendation failed"

\* A batch embedding call raised and the request was answered 500.
C9_Witness ==
    /\ pc = "done"
    /\ \E c \in Categories : embedOutcome[c] = "throw"
    /\ Len(responses) = 1
    /\ responses[1].status = 500

\* C10: an OPTIONS request is answered 200 without a body and without any
\* external call, and every response is sent with the three access-control
\* headers already set.
C10_PreflightAndHeaders ==
    /\ req.method = "OPTIONS" =>
          /\ calls = <<>>
          /\ pc \in {"start", "done"}
          /\ pc = "done" => responses = <<Response(200, NoBody, CorsHeaders)>>
    /\ \A i \in 1..Len(responses) : CorsHeaders \subseteq responses[i].headers

\* An OPTIONS request that also carries query and mood was answered.
C10_Witness ==
    /\ pc = "done"
    /\ req.method = "OPTIONS"
    /\ req.query
    /\ req.mood
    /\ Len(responses) = 1
    /\ responses[1].status = 200

SearchCalls == {"search_movie", "search_tv", "search_book"}

\* At most 5 movie records, then at most 5 tv records, then at most 5 book
\* records.
IsSearchArray(items) ==
    \E m, t, b \in 0..SearchLimit :
        /\ Len(items) = m + t + b
        /\ \A i \in 1..Len(items) :
              items[i].type = (IF i <= m THEN "movie" ELSE IF i <= m + t THEN "tv" ELSE "book")

\* C11 as stated: whenever `query` is present, only catalog searches are
\* called and the answer is a JSON array of at most 5 movie, then at most 5
\* tv, then at most 5 book records.
C11_AsStated ==
    req.query =>
        /\ \A i \in 1..Len(calls) : calls[i] \in SearchCalls
        /\ pc = "done" =>
              /\ Len(responses) = 1
              /\ responses[1].status = 200
              /\ responses[1].body.kind = "search"
              /\ IsSearchArray(responses[1].body.items)

\* C11 amended: a request with `query` that is no OPTIONS preflight takes
\* the search path only, with or without `mood`: it calls nothing but the
\* three catalog searches, and it is answered either 200 with an array of at
\* most 5 movie, then at most 5 tv, then at most 5 book records, or, when a
\* search fails, 500 with the error object.
C11_SearchOnly ==
    (req.query /\ req.method # "OPTIONS") =>
        /\ \A i \in 1..Len(calls) : calls[i] \in SearchCalls
        /\ pc \in {"start", "search", "done"}
        /\ pc = "done" =>
              /\ Len(responses) = 1
              /\ \/ /\ responses[1].status = 200
                    /\ responses[1].body.kind = "search"
                    /\ IsSearchArray(responses[1].body.items)
                 \/ /\ responses[1].status = 500
                    /\ responses[1].body = ErrorBody("Recommendation failed", "search failed")

\* A GET carrying both query and mood was answered with the full 15
\* records, each catalog having returned more than five.
C11_Witness ==
    /\ pc = "done"
    /\ req.method = "GET" /\ req.query /\ req.mood
    /\ Len(responses) = 1
    /\ responses[1].status = 200
    /\ responses[1].body.kind = "search"
    /\ Len(responses[1].body.items) = 3 * SearchLimit

(***************************************************************************)
(* Claims about keywordOverlap and genreOverlap (checked under             *)
(* SpecOverlap).                                                           *)
(***************************************************************************)
LowerTerm(term) == [k \in 1..Len(term) |-> Lower(term[k])]

\* Every reference term is, case aside, one of the tags.
EveryTermTagged(ref, tags) ==
    \A i \in 1..Len(ref) : \E j \in 1..Len(tags) : LowerTerm(ref[i]) = LowerTerm(tags[j])

\* C12 as stated: for every non-empty reference set and every tag set, terms
\* and tags of several words included, both overlap scores are 1.0 whenever
\* every reference term appears, case aside, in the tag set.
C12_AsStated ==
    (ov_pc = "returned" /\ Len(ov_ref) > 0 /\ EveryTermTagged(ov_ref, ov_tags)) =>
        /\ ov_ret.keyword = FixedOne
        /\ ov_ret.genre = FixedOne

(***************************************************************************)
(* Claims about hybridScore (checked under SpecScore).                     *)
(***************************************************************************)
\* The embedding call of call number n returned one embedding per item.
OneEmbeddingPerItem(n) == Len(hs_items) = 0 \/ hs_embed[n] \in {"ok", "holes"}

\* The score is 0.5 * sim + 0.3 * keywordScore + 0.2 * genreScore (in
\* thousandths, rounded down), and NaN where the similarity is NaN.
IsWeightedSum(score, sim, keywordScore, genreScore) ==
    IF sim.kind = "num"
    THEN /\ score.kind = "num"
         /\ score.v = (5 * sim.v + 3 * keywordScore + 2 * genreScore) \div 10
    ELSE score.kind = sim.kind

\* The list holds one scored item per input item, in input order, each
\* scored by the weighted sum of its similarity to the mood and its overlaps
\* with the reference.
ScoredOneToOne(list, embeddings) ==
    /\ Len(list) = Len(hs_items)
    /\ \A i \in 1..Len(list) :
          /\ list[i].key = hs_items[i].key
          /\ IsWeightedSum(list[i].score,
                           cosineSimilarity(hs_mood, OrEmpty(embeddings[i])),
                           keywordOverlap(hs_ref.keywords, hs_items[i].tags),
                           genreOverlap(hs_ref.genres, hs_items[i].tags))

EnrichReturned == Called("embed_mood")

\* C14: whatever the order in which the concurrent catalog lookups complete,
\* the results hold, at the index of every settled lookup, the item derived
\* from the pool item at that index (and nothing at the others), and the list
\* enrichPoolWithMetadata returns has the length of the pool with the item at
\* index i derived from the pool item at index i.
C14_IndexStable ==
    /\ pc = "enrich" =>
          /\ Len(results) = Len(pool.elems)
          /\ \A i \in 1..Len(results) :
                results[i] = (IF enrichOutcome[i] \in EnrichOutcomes
                              THEN EnrichItem(pool.elems[i], enrichOutcome[i])
                              ELSE Pending)
    /\ EnrichReturned =>
          /\ Len(enriched) = Len(pool.elems)
          /\ \A i \in 1..Len(enriched) : enriched[i].key = pool.elems[i].key
          /\ enriched = enrichPoolWithMetadata(pool.elems, enrichOutcome)

\* The lookup of the second pool item has completed with a catalog match
\* while the lookup of the first is still outstanding.
C14_Witness ==
    /\ pc = "enrich"
    /\ Len(pool.elems) = 2
    /\ enrichOutcome[1] \in {"pending", "detail"}
    /\ enrichOutcome[2] = "hit"
    /\ results[2].key = 2

\* C15: when the catalog lookup of a pool item returns no result or fails,
\* that item is passed through unchanged (no id, image or description
\* added), the items whose lookup found a match are still enriched, and the
\* batch does not fail: no error response comes of it and the handler goes on
\* past enrichment.
C15_LookupFailureIsolated ==
    \A i \in 1..Len(enrichOutcome) :
        enrichOutcome[i] \in {"miss", "fail"} =>
            /\ pc = "enrich" => results[i] = pool.elems[i]
            /\ EnrichReturned =>
                  /\ enriched[i] = pool.elems[i]
                  /\ \A j \in 1..Len(enriched) :
                        enrichOutcome[j] = "hit" =>
                            /\ enriched[j].id = "catalog"
                            /\ enriched[j].image = "url"
                            /\ enriched[j].desc = "catalog"
            /\ \A r \in 1..Len(responses) :
                  responses[r].body.kind = "error" => responses[r].body.details # "lookup failed"
            /\ pc = "done" => EnrichReturned

\* The lookup of the first of two LLM candidates failed, the second found a
\* match, and enrichment returned the first as it was and the second
\* enriched.
C15_Witness ==
    /\ EnrichReturned
    /\ Len(pool.elems) = 2
    /\ enrichOutcome[1] = "fail" /\ enrichOutcome[2] = "hit"
    /\ enriched[1] = pool.elems[1] /\ enriched[1].id = "none"
    /\ enriched[2].id = "catalog"

\* Every item of the list is a pool item (by its key, its position in the
\* pool) with the type and the tags the pool builder gave it.
KeepsType(list) ==
    \A i \in 1..Len(list) :
        list[i] # Pending =>
            /\ list[i].key \in 1..Len(pool.elems)
            /\ list[i].type = pool.elems[list[i].key].type
            /\ list[i].tags = pool.elems[list[i].key].tags

\* C16: at every stage of the pipeline (the results enrichment collects, the
\* enriched pool, the scored lists, the lists of the response) every
\* candidate has the media type the pool builder assigned to it; enrichment
\* changes no field other than id, title, description and image.
C16_TypeImmutable ==
    /\ KeepsType(results)
    /\ KeepsType(enriched)
    /\ \A c \in Categories : KeepsType(scored[c])
    /\ \A r \in 1..Len(responses) :
          responses[r].body.kind = "mood" =>
              \A c \in Categories : KeepsType(BodyList(responses[r].body, c))

\* A tv candidate of the LLM pool was matched in the catalog, scored, and
\* returned in the response as a tv item with its catalog id.
C16_Witness ==
    /\ pc = "done"
    /\ Len(responses) = 1
    /\ responses[1].body.kind = "mood"
    /\ \E i \in 1..Len(responses[1].body.tv) :
          /\ responses[1].body.tv[i].id = "catalog"
          /\ responses[1].body.tv[i].type = "tv"
          /\ pool.elems[responses[1].body.tv[i].key].id = "none"

(***************************************************************************)
(* Claims about the playlist lookup (checked under SpecPlaylist, where the *)
(* playlist provider need not answer).                                     *)
(***************************************************************************)
\* The handler is waiting for the pool, the enrichment or the scoring.
PipelineWaiting == pc \in {"pool", "fallback", "enrich", "embedMood", "score"}

\* C17 as stated: the playlist lookup is started without waiting for the
\* pool fetch, the enrichment or the scoring (while the handler waits for
\* any of them the lookup has already been started), and a lookup that never
\* completes does not keep the scored response from being sent: once the
\* lists are scored the request is eventually answered.
C17_AsStated ==
    /\ [](PipelineWaiting => Called("spotify_token"))
    /\ (pc = "spotify") ~> (pc = "done")

(***************************************************************************)
(* Further claims about the handler (checked under Spec).                  *)
(***************************************************************************)
\* The categories whose batch embedding call raised.
FailedCategories == {c \in Categories : embedOutcome[c] = "throw"}

\* C18 as stated: when the batch embedding call of some but not all three
\* categories raises, the request does not end in a 500: it is answered 200
\* with an empty list for each failed category (and the scored lists of the
\* others).
C18_AsStated ==
    (FailedCategories # {} /\ FailedCategories # Categories) =>
        /\ \A r \in 1..Len(responses) : responses[r].status # 500
        /\ pc = "done" =>
              /\ Len(responses) = 1
              /\ responses[1].status = 200
              /\ responses[1].body.kind = "mood"
              /\ \A c \in FailedCategories : BodyList(responses[1].body, c) = <<>>

(***************************************************************************)
(* A further claim about finalizeResults (checked under SpecFinalize).     *)
(***************************************************************************)
\* C19 as stated: finalizeResults leaves the list passed to it as it was,
\* in order and in contents: after the call the caller sees the list it
\* passed.
C19_AsStated == fin_pc = "returned" => fin_items = fin_input

\* C20: in every 200 response of the mood path each item of `movies` has
\* type "movie", each item of `tv` type "tv" and each item of `books` type
\* "book"; a pool item of any other type is in none of the lists; and when
\* the trending fallback pool was used `tv` and `books` are empty.
C20_ListsByType ==
    \A r \in 1..Len(responses) :
        (responses[r].status = 200 /\ responses[r].body.kind = "mood") =>
            /\ \A c \in Categories :
                  \A i \in 1..Len(BodyList(responses[r].body, c)) :
                      /\ BodyList(responses[r].body, c)[i].type = c
                      /\ pool.elems[BodyList(responses[r].body, c)[i].key].type \in Categories
            /\ Called("trending") =>
                  /\ responses[r].body.tv = <<>>
                  /\ responses[r].body.books = <<>>

\* The LLM pool held a podcast and a movie, and the request was answered 200
\* with the movie alone.
C20_Witness ==
    /\ pc = "done"
    /\ Len(responses) = 1
    /\ responses[1].status = 200
    /\ responses[1].body.kind = "mood"
    /\ \E k \in 1..Len(pool.elems) : pool.elems[k].type = "podcast"
    /\ Len(responses[1].body.movies) = 1
    /\ responses[1].body.tv = <<>> /\ responses[1].body.books = <<>>

=============================================================================
